---- MODULE Spec2Model ----
(***************************************************************************)
(* A model of ixdat's directory backend (DirBackend): tables are folders,  *)
(* rows are files named "{id}_{name}.{suffix}", payloads are files named   *)
(* "{id}_{name}.{data_suffix}".  File names are kept as the three parts    *)
(* the code reads back: the leading underscore-delimited token (a sequence *)
(* of characters), the rest of the stem, and the class of the suffix       *)
(* ("meta": p.suffix == self.suffix, "data": the payload suffix, "other"). *)
(* Exceptions are outcomes: every call yields a record whose kind is "ok"  *)
(* or the name of the Python exception that reaches the caller.            *)
(*                                                                         *)
(* Taken as given: the store's own directory exists; suffix and            *)
(* data_suffix start with a dot, so that a row add_row writes has          *)
(* p.suffix == self.suffix; every file name holds an underscore, so that   *)
(* path.stem.split("_")[0] and file.name.split("_")[0] are the same token; *)
(* every object has a table_name and a name; the bulk data of a data       *)
(* object is an ndarray, which json.dump cannot encode; identifiers are not *)
(* negative and leading tokens are made of digits, letters and punctuation *)
(* that int() rejects (no sign, no white space).                           *)
(*                                                                         *)
(* Spec is the store used by one caller, a call at a time.  SpecRace runs  *)
(* two callers' saves into one table step by step, one file-system access  *)
(* a step.  SpecEq applies __eq__ to two instances over the directories    *)
(* they may be constructed on, SpecCodec applies id_from_path and          *)
(* name_from_path to the stems of paths.                                   *)
(***************************************************************************)
EXTENDS Integers, Sequences, FiniteSets, TLC

\* ---------------------------------------------------------------- bounds

\* Tables that exist at the start hold rows with ids 0..k, k <= MaxInitId.
MaxInitId == 1

\* A handler that writes is not called on a table already holding this many
\* directory entries.
MaxEntries == 5

\* The path codec is applied to "{id}_{name}" for ids up to MaxCodecId.
MaxCodecId == 11

\* Display names given to the path codec have at most this many characters.
MaxNameLen == 3

\* Other stems given to the path codec have at most this many characters.
MaxStemLen == 3

\* ------------------------------------------------------------- constants

Tables == {"ta", "tb", "tp"}

\* Python's None where an integer is expected (an unbound object's id, the
\* result of id_from_path on a malformed name).
NoId == -1

Digits == <<"0", "1", "2", "3", "4", "5", "6", "7", "8", "9">>

\* str(id) for the builtin function id, which line 92 formats into the name.
BuiltinIdRepr ==
    <<"<", "b", "u", "i", "l", "t", "-", "i", "n", " ",
      "f", "u", "n", "c", "t", "i", "o", "n", " ", "i", "d", ">">>

\* A leading token that int() rejects.
NotANumber == <<"n", "o", "t", "a", "n", "u", "m", "b", "e", "r">>

\* ------------------------------------------------------- integer <-> text

IsDigit(c) == \E k \in 1..10 : Digits[k] = c

DigitVal(c) == (CHOOSE k \in 1..10 : Digits[k] = c) - 1

RECURSIVE DecVal(_)
DecVal(s) ==
    IF Len(s) = 0 THEN 0
    ELSE DecVal(SubSeq(s, 1, Len(s) - 1)) * 10 + DigitVal(s[Len(s)])

\* f"{i}" for an integer i >= 0.
RECURSIVE Str(_)
Str(i) ==
    IF i < 10 THEN <<Digits[i + 1]>>
    ELSE Str(i \div 10) \o <<Digits[(i % 10) + 1]>>

\* int(tok): the value, or ValueError for a token that is not a decimal
\* numeral.
IntOf(tok) ==
    IF Len(tok) > 0 /\ \A k \in 1..Len(tok) : IsDigit(tok[k])
    THEN [kind |-> "ok", val |-> DecVal(tok)]
    ELSE [kind |-> "ValueError", val |-> NoId]

\* id_from_path: int(path.stem.split("_")[0]), None on ValueError.
id_from_path(f) ==
    LET r == IntOf(f.tok) IN IF r.kind = "ok" THEN r.val ELSE NoId

\* path.stem.split("_"): the pieces between the underscores.
RECURSIVE Split(_)
Split(s) ==
    IF \A k \in 1..Len(s) : s[k] # "_" THEN <<s>>
    ELSE <<SubSeq(s, 1, (CHOOSE k \in 1..Len(s) :
                          s[k] = "_" /\ \A j \in 1..(k - 1) : s[j] # "_") - 1)>>
         \o Split(SubSeq(s, (CHOOSE k \in 1..Len(s) :
                              s[k] = "_" /\ \A j \in 1..(k - 1) : s[j] # "_") + 1,
                         Len(s)))

\* "".join(tokens)
RECURSIVE JoinEmpty(_)
JoinEmpty(toks) ==
    IF Len(toks) = 0 THEN <<>> ELSE Head(toks) \o JoinEmpty(Tail(toks))

\* name_from_path, of the stem of a path.
name_from_path(stem) == JoinEmpty(Tail(Split(stem)))

\* id_from_path, of the stem of a path.
id_from_stem(stem) == id_from_path([tok |-> Head(Split(stem))])

\* ------------------------------------------------------------ file system

\* The metadata mapping of an object (as_dict), and what json.dump leaves
\* of it: complete is FALSE for a file json.dump gave up on.
Dict(name, data, refs) ==
    [complete |-> TRUE, name |-> name, data |-> data, refs |-> refs]

NoDict == [complete |-> FALSE, name |-> "", data |-> "None", refs |-> <<>>]

File(tok, name, ext, content) ==
    [tok |-> tok, name |-> name, ext |-> ext, isdir |-> FALSE,
     content |-> content]

SubDir(tok, name) ==
    [tok |-> tok, name |-> name, ext |-> "other", isdir |-> TRUE,
     content |-> NoDict]

SamePath(f, g) == f.tok = g.tok /\ f.name = g.name /\ f.ext = g.ext

\* open(path, "w") and a write: the entry at that path is replaced.
WriteFile(entries, f) == {g \in entries : ~SamePath(g, f)} \cup {f}

Ok(v) == [kind |-> "ok", val |-> v]

Raise(e) == [kind |-> e, val |-> NoId]

\* An except clause that swallows what int() raises as well.
CaughtInIdList_ValueError(e) == e \in {"TypeError", "ValueError"}

\* The except clause of get_id_list: the exceptions it swallows.
CaughtInIdList(e) == e = "TypeError"

\* get_id_list: the ids of the non-directory entries of the folder.  A folder
\* that does not exist makes iterdir raise; an int() failure that the except
\* clause does not name reaches the caller.
get_id_list(w, t) ==
    IF t \notin w.dirs THEN [kind |-> "FileNotFoundError", ids |-> {}]
    ELSE LET fs  == {f \in w.files[t] : ~f.isdir}
             bad == {f \in fs : IntOf(f.tok).kind # "ok"
                                /\ ~CaughtInIdList(IntOf(f.tok).kind)}
         IN IF bad # {}
            THEN [kind |-> "ValueError", ids |-> {}]
            ELSE [kind |-> "ok",
                  ids  |-> {IntOf(f.tok).val :
                              f \in {g \in fs : IntOf(g.tok).kind = "ok"}}]

Max(S) == CHOOSE x \in S : \A y \in S : y <= x

\* max() of the id list: ValueError on an empty list.
MaxOfIds(ids) ==
    IF ids = {} THEN Raise("ValueError") ELSE Ok(Max(ids))

\* max(...) + 1 of an id list that was read.
NextAfter(l) ==
    IF l.kind # "ok" THEN Raise(l.kind)
    ELSE IF MaxOfIds(l.ids).kind # "ok" THEN MaxOfIds(l.ids)
    ELSE Ok(MaxOfIds(l.ids).val + 1)

get_next_available_id(w, t) == NextAfter(get_id_list(w, t))

\* i in id_list, for an id list that was read.
MemberOf(l, i) == [kind |-> l.kind, val |-> l.kind = "ok" /\ i \in l.ids]

contains(w, t, i) == MemberOf(get_id_list(w, t), i)

\* get_path_to_row: the candidates of next(...); the folder's iteration order
\* decides which one is returned.  {} stands for the None of StopIteration.
RowCandidates(w, t, i) ==
    {p \in w.files[t] : id_from_path(p) = i /\ p.ext = "meta"}

\* ---------------------------------------------------------------- objects

Objs == {"d1", "d2", "d3", "p", "r"}

\* Kinds whose objects carry a data attribute (hasattr(obj, "data")).
DataTables == {"ta", "tb"}

Obj(live, table, name, data, kids, id, backend) ==
    [live |-> live, table |-> table, name |-> name, data |-> data,
     kids |-> kids, hasdata |-> table \in DataTables, id |-> id,
     backend |-> backend, backend_name |-> "None"]

\* data_obj.backend == self (DirBackend.__eq__ with other is self).
BackendIsSelf(b) == b = "self"

\* obj.as_dict(): the object's name, its bulk data and the identifiers its
\* owned data objects hold when it is evaluated.
as_dict(w, o) ==
    Dict(w.objs[o].name, w.objs[o].data,
         [k \in 1..Len(w.objs[o].kids) |-> w.objs[w.objs[o].kids[k]].id])

\* cls.from_dict(obj_as_dict) for the row read under identifier i.
from_dict(t, i, d) == Obj(TRUE, t, d.name, d.data, <<>>, i, "none")

\* json.dump refuses a mapping that holds an ndarray.
JsonSerializable(d) == d.data = "None"

\* ------------------------------------------------------------------- log

\* What a handler did, in order, during the call in progress.
Ev(ev, obj, id, dict) == [ev |-> ev, obj |-> obj, id |-> id, dict |-> dict]

Logged(w, e) == [w EXCEPT !.log = Append(@, e)]

\* ---------------------------------------------------------------- writes

\* The leading token add_row gives the row file: f"{id}_..." names the
\* builtin id, not the local i.
RowToken(i) == BuiltinIdRepr

\* folder.mkdir() when the folder does not exist.
Mkdir(w, t) == [w EXCEPT !.dirs = @ \cup {t}]

\* The rest of add_row once the identifier n is allocated: open(..., "w") and
\* json.dump.  The file exists from the open on; a json.dump that raises
\* leaves what it had written.
write_row(w, o, d, t, n) ==
    IF n.kind # "ok" THEN [w |-> w, res |-> n]
    ELSE IF \E g \in w.files[t] :
               SamePath(g, File(RowToken(n.val), d.name, "meta", d)) /\ g.isdir
    THEN [w |-> w, res |-> Raise("IsADirectoryError")]
    ELSE [w |-> Logged([w EXCEPT !.files[t] =
                          WriteFile(@, File(RowToken(n.val), d.name, "meta",
                                            [d EXCEPT !.complete =
                                                 JsonSerializable(d)]))],
                       Ev("write_meta", o, n.val,
                          [d EXCEPT !.complete = JsonSerializable(d)])),
          res |-> IF JsonSerializable(d) THEN n ELSE Raise("TypeError")]

\* add_row: mkdir, allocate, write.
add_row(w, o, d, t) ==
    write_row(Mkdir(w, t), o, d, t, get_next_available_id(Mkdir(w, t), t))

\* np.save(folder / f"{data_obj.id}_{data_obj.name}.{data_suffix}", data)
PayloadFile(i, name, data) == File(Str(i), name, "data", Dict("", data, <<>>))

\* Lines 78-83 of save_data_obj, after add_row gave a: the id, the backend,
\* the payload file.
bind_data_obj(o, data, a) ==
    IF a.res.kind # "ok" THEN a
    ELSE [w |-> [a.w EXCEPT
                   !.objs[o].id = a.res.val,
                   !.objs[o].backend = "self",
                   !.files[a.w.objs[o].table] =
                       WriteFile(@, PayloadFile(a.res.val, a.w.objs[o].name,
                                                data)),
                   !.log = @ \o <<Ev("set_id", o, a.res.val, NoDict),
                                  Ev("set_backend", o, a.res.val, NoDict),
                                  Ev("write_payload", o, a.res.val, NoDict)>>],
          res |-> Ok(a.res.val)]

\* Line 73: backend == self and contains(...), the second operand evaluated
\* only when the first holds.
already_saved(w, o) ==
    IF BackendIsSelf(w.objs[o].backend)
    THEN contains(w, w.objs[o].table, w.objs[o].id)
    ELSE [kind |-> "ok", val |-> FALSE]

\* save_data_obj without its early return: every call writes a row.
save_data_obj_always(w, o, c) ==
    IF c.kind # "ok" THEN [w |-> w, res |-> Raise(c.kind)]
    ELSE bind_data_obj(o, as_dict(w, o).data,
                       add_row(Logged(w, Ev("as_dict", o, w.objs[o].id,
                                            as_dict(w, o))),
                               o, [as_dict(w, o) EXCEPT !.data = "None"],
                               w.objs[o].table))

\* save_data_obj once line 73 is evaluated to c.
save_data_obj_after(w, o, c) ==
    IF c.kind # "ok" THEN [w |-> w, res |-> Raise(c.kind)]
    ELSE IF c.val THEN [w |-> w, res |-> Ok(w.objs[o].id)]
    ELSE bind_data_obj(o, as_dict(w, o).data,
                       add_row(Logged(w, Ev("as_dict", o, w.objs[o].id,
                                            as_dict(w, o))),
                               o, [as_dict(w, o) EXCEPT !.data = "None"],
                               w.objs[o].table))

save_data_obj(w, o) == save_data_obj_after(w, o, already_saved(w, o))

\* The loop of save over obj.data_objects: the first exception ends it.
RECURSIVE save_data_objects(_, _, _)
RECURSIVE save_rest(_, _, _)
save_rest(r, kids, k) ==
    IF r.res.kind # "ok" THEN r ELSE save_data_objects(r.w, kids, k + 1)

save_data_objects(w, kids, k) ==
    IF k > Len(kids) THEN [w |-> w, res |-> Ok(NoId)]
    ELSE save_rest(save_data_obj(w, kids[k]), kids, k)

\* Lines 46-48 of save, after add_row gave a: the id and the backend name.
bind_obj(o, a) ==
    IF a.res.kind # "ok" THEN a
    ELSE [w |-> [a.w EXCEPT
                   !.objs[o].id = a.res.val,
                   !.objs[o].backend_name = "DirBackend",
                   !.log = Append(@, Ev("set_id", o, a.res.val, NoDict))],
          res |-> Ok(a.res.val)]

\* Lines 41-48 of save, in the world w the loop left, with d the mapping
\* as_dict gave.
save_self(w, o, d) ==
    bind_obj(o, add_row(Logged(w, Ev("as_dict", o, w.objs[o].id, d)), o, d,
                        w.objs[o].table))

\* save going on to its own row whatever the loop over the data objects gave.
save_after_any(o, r) == save_self(r.w, o, as_dict(r.w, o))

\* save once the loop over the data objects gave r.
save_after(o, r) ==
    IF r.res.kind # "ok" THEN r ELSE save_self(r.w, o, as_dict(r.w, o))

\* save with as_dict evaluated before the loop over the data objects.
save_dict_first_after(o, d, r) ==
    IF r.res.kind # "ok" THEN r ELSE save_self(r.w, o, d)

save_dict_first(w, o) ==
    save_dict_first_after(o, as_dict(w, o),
                          save_data_objects(w, w.objs[o].kids, 1))

save(w, o) == save_after(o, save_data_objects(w, w.objs[o].kids, 1))

\* ----------------------------------------------------------------- reads

NoFile == File(<<>>, "", "other", NoDict)

\* get_path_to_row: FileNotFoundError from iterdir on a missing folder, None
\* (found = FALSE) when nothing matches, else any one of the matches.
get_path_to_row(w, t, i) ==
    IF t \notin w.dirs
    THEN {[kind |-> "FileNotFoundError", found |-> FALSE, path |-> NoFile]}
    ELSE IF RowCandidates(w, t, i) = {}
    THEN {[kind |-> "ok", found |-> FALSE, path |-> NoFile]}
    ELSE {[kind |-> "ok", found |-> TRUE, path |-> q] :
            q \in RowCandidates(w, t, i)}

\* open_serialization on the path get_path_to_row gave: open(None) is a
\* TypeError, json.load of a truncated document a JSONDecodeError.
open_serialization(r) ==
    IF r.kind # "ok" THEN [kind |-> r.kind, dict |-> NoDict]
    ELSE IF ~r.found THEN [kind |-> "TypeError", dict |-> NoDict]
    ELSE IF r.path.isdir THEN [kind |-> "IsADirectoryError", dict |-> NoDict]
    ELSE IF ~r.path.content.complete
    THEN [kind |-> "JSONDecodeError", dict |-> NoDict]
    ELSE [kind |-> "ok", dict |-> r.path.content]

\* open once the mapping is read: the reconstructed object, bound to this
\* store.
open_after(t, i, s) ==
    [kind |-> s.kind, dict |-> s.dict,
     obj  |-> IF s.kind = "ok"
              THEN [from_dict(t, i, s.dict) EXCEPT !.backend = "self"]
              ELSE Obj(FALSE, t, "", "None", <<>>, NoId, "none")]

open(t, i, r) == open_after(t, i, open_serialization(r))

\* load_obj_data on the path get_path_to_row gave: None.with_suffix is an
\* AttributeError; only FileNotFoundError from np.load is swallowed.
load_obj_data(w, o, r) ==
    LET ob == w.objs[o]
        pl == {f \in w.files[ob.table] :
                 r.found /\ f.tok = r.path.tok /\ f.name = r.path.name
                 /\ f.ext = "data"}
    IN IF ~ob.hasdata THEN [kind |-> "ok", data |-> "None"]
       ELSE IF r.kind # "ok" THEN [kind |-> r.kind, data |-> "None"]
       ELSE IF ~r.found THEN [kind |-> "AttributeError", data |-> "None"]
       ELSE IF pl = {} THEN [kind |-> "ok", data |-> "None"]
       ELSE IF \E f \in pl : f.isdir
       THEN [kind |-> "IsADirectoryError", data |-> "None"]
       ELSE [kind |-> "ok", data |-> (CHOOSE f \in pl : TRUE).content.data]

\* --------------------------------------------------------- store equality

\* The store instances, and an object that has no directory attribute.
Insts == {"a", "b"}

NotAStore == "x"

\* The directory entries a store may be constructed on, and the paths that
\* name them: "./d" is the entry "d" written another way.
RootEntries == {"d", "e", "lnk"}

RootPaths == {"d", "./d", "e", "lnk"}

Entry(p) == IF p = "./d" THEN "d" ELSE p

Absent == [kind |-> "absent", target |-> ""]

Directory == [kind |-> "dir", target |-> ""]

Symlink(e) == [kind |-> "link", target |-> e]

\* Path.resolve(): the entry a path leads to, symbolic links followed; a path
\* that does not exist resolves to itself.
resolve(rt, p) ==
    IF rt[Entry(p)].kind = "link" THEN rt[Entry(p)].target ELSE Entry(p)

NoStat == [ino |-> "", mode |-> "absent"]

\* Path.lstat(): the stat of the entry itself, a symbolic link not followed;
\* FileNotFoundError when there is no such entry.
lstat(rt, p) ==
    IF rt[Entry(p)].kind = "absent"
    THEN [kind |-> "FileNotFoundError", st |-> NoStat]
    ELSE [kind |-> "ok", st |-> [ino |-> Entry(p), mode |-> rt[Entry(p)].kind]]

\* The last operand of __eq__'s condition: other's lstat, then self's.
lstat_equal(lo, ls) ==
    IF lo.kind # "ok" THEN Raise(lo.kind)
    ELSE IF ls.kind # "ok" THEN Raise(ls.kind)
    ELSE Ok(lo.st = ls.st)

\* DirBackend.__eq__ of instance self with other, under the directories st
\* gives the instances and the entries rt.
eq(st, rt, self, other) ==
    IF other = self THEN Ok(TRUE)
    ELSE IF other \notin DOMAIN st THEN Ok(FALSE)
    ELSE IF resolve(rt, st[other]) # resolve(rt, st[self]) THEN Ok(FALSE)
    ELSE lstat_equal(lstat(rt, st[other]), lstat(rt, st[self]))

\* ------------------------------------------------------------------ state

VARIABLES
    dirs,      \* the table folders that exist under the store's directory
    files,     \* table -> the entries of its folder
    objs,      \* the caller's objects: id, backend, backend_name
    log,       \* what the last call did, in order
    last,      \* the last call and what it gave the caller
    returned,  \* table -> the identifiers add_row has returned, in order
    fresh,     \* the tables that held no entry at the start
    stores,    \* store instance -> the directory it was constructed with
    roots,     \* directory entry -> what the file system holds there
    pc         \* writer -> where it is in a call that other calls interleave

vars == <<dirs, files, objs, log, last, returned, fresh, stores, roots, pc>>

\* What the calls on one store, one at a time, leave alone.
apart == <<stores, roots, pc>>

World == [dirs |-> dirs, files |-> files, objs |-> objs, log |-> <<>>]

Last(op, obj, tbl, arg, kind, val) ==
    [op |-> op, obj |-> obj, tbl |-> tbl, arg |-> arg, kind |-> kind,
     val |-> val, found |-> FALSE, ids |-> {}, data |-> "None",
     dict |-> NoDict]

Row(i) == File(Str(i), "row", "meta", Dict("row", "None", <<>>))

Rows(k) == {Row(i) : i \in 0..k}

\* What the folder of a data table may hold at the start: nothing, conforming
\* rows, a row beside a foreign file, a payload file alone, a row with its
\* payload, a row beside a sub-directory.
InitContents ==
    {{}} \cup {Rows(k) : k \in 0..MaxInitId}
    \cup {Rows(0) \cup {File(NotANumber, "foo", "meta", Dict("foo", "None", <<>>))},
          {PayloadFile(0, "row", "arr_row")},
          Rows(0) \cup {PayloadFile(0, "row", "arr_row")},
          Rows(0) \cup {SubDir(<<"s", "u", "b">>, "dir")}}

\* The start of each table: "ta" ranges over every case above, "tb" is empty
\* or holds conforming rows, "tp" is empty or holds one row.
InitFiles ==
    {[ta |-> a, tb |-> b, tp |-> c] :
        a \in InitContents, b \in {{}, Rows(MaxInitId)}, c \in {{}, Rows(0)}}

\* The caller's objects: two data objects in "ta" with the same display name
\* (d3 comes bound to another store, under an id this store holds too), one
\* in "tb", their owner p in "tp", and r, the variable that receives what
\* open returns.
InitObjs ==
    [d1 |-> Obj(TRUE, "ta", "alpha", "arr_d1", <<>>, NoId, "none"),
     d2 |-> Obj(TRUE, "tb", "beta", "arr_d2", <<>>, NoId, "none"),
     d3 |-> Obj(TRUE, "ta", "alpha", "arr_d3", <<>>, 0, "other"),
     p  |-> Obj(TRUE, "tp", "gamma", "None", <<"d1", "d2">>, NoId, "none"),
     r  |-> Obj(FALSE, "ta", "", "None", <<>>, NoId, "none")]

Init ==
    /\ files \in InitFiles
    /\ dirs \in SUBSET Tables
    /\ \A t \in Tables : files[t] # {} => t \in dirs
    /\ "tb" \in dirs
    /\ "tp" \notin dirs <=> files["tp"] = {}
    /\ objs = InitObjs
    /\ log = <<>>
    /\ last = Last("init", "", "", NoId, "ok", NoId)
    /\ returned = [t \in Tables |-> <<>>]
    /\ fresh = {t \in Tables : files[t] = {}}
    /\ stores = [a |-> "d", b |-> "e"]
    /\ roots = [d |-> Directory, e |-> Directory, lnk |-> Absent]
    /\ pc = <<>>

\* The identifiers add_row returned for table t during a call, from its log.
RECURSIVE Allocated(_, _, _)
Allocated(lg, t, k) ==
    IF k > Len(lg) THEN <<>>
    ELSE IF lg[k].ev = "set_id" /\ objs[lg[k].obj].table = t
    THEN <<lg[k].id>> \o Allocated(lg, t, k + 1)
    ELSE Allocated(lg, t, k + 1)

Commit(op, o, r) ==
    /\ dirs' = r.w.dirs
    /\ files' = r.w.files
    /\ objs' = r.w.objs
    /\ log' = r.w.log
    /\ returned' = [t \in Tables |-> returned[t] \o Allocated(r.w.log, t, 1)]
    /\ fresh' = fresh
    /\ last' = Last(op, o, objs[o].table, NoId, r.res.kind, r.res.val)
    /\ UNCHANGED apart

Room(o) ==
    \A x \in {o} \cup {objs[o].kids[k] : k \in 1..Len(objs[o].kids)} :
        Cardinality(files[objs[x].table]) < MaxEntries

\* ---------------------------------------------------------------- actions

Save(o) ==
    /\ objs[o].live
    /\ Room(o)
    /\ Commit("save", o, save(World, o))

SaveDataObj(o) ==
    /\ objs[o].live
    /\ Room(o)
    /\ Commit("save_data_obj", o, save_data_obj(World, o))

IdArgs == 0..(MaxInitId + 1)

\* The table the read-only calls are made on: the one whose start ranges over
\* every case.
ReadTables == {"ta"}

Opened(t, i, r, x) ==
    /\ objs' = IF x.kind = "ok" THEN [objs EXCEPT !["r"] = x.obj] ELSE objs
    /\ last' = [Last("open", "r", t, i, x.kind, NoId)
                  EXCEPT !.dict = x.dict, !.found = r.found]
    /\ log' = <<>>
    /\ UNCHANGED <<dirs, files, returned, fresh, stores, roots, pc>>

Open(t, i) ==
    \E r \in get_path_to_row(World, t, i) : Opened(t, i, r, open(t, i, r))

Answered(l) ==
    /\ last' = l
    /\ log' = <<>>
    /\ UNCHANGED <<dirs, files, objs, returned, fresh, stores, roots, pc>>

ContainsAnswer(t, i, c) ==
    [Last("contains", "", t, i, c.kind, NoId) EXCEPT !.found = c.val]

Contains(t, i) ==
    /\ t \in Tables
    /\ Answered(ContainsAnswer(t, i, contains(World, t, i)))

IdListAnswer(t, l) ==
    [Last("get_id_list", "", t, NoId, l.kind, NoId) EXCEPT !.ids = l.ids]

GetIdList(t) ==
    /\ t \in Tables
    /\ Answered(IdListAnswer(t, get_id_list(World, t)))

NextIdAnswer(t, n) ==
    Last("get_next_available_id", "", t, NoId, n.kind, n.val)

GetNextAvailableId(t) ==
    /\ t \in Tables
    /\ Answered(NextIdAnswer(t, get_next_available_id(World, t)))

LoadAnswer(o, r, x) ==
    [Last("load_obj_data", o, objs[o].table, objs[o].id, x.kind, NoId)
       EXCEPT !.data = x.data, !.found = r.found]

LoadObjData(o) ==
    /\ objs[o].live
    /\ \E r \in get_path_to_row(World, objs[o].table, objs[o].id) :
         Answered(LoadAnswer(o, r, load_obj_data(World, o, r)))

Next ==
    \/ \E o \in Objs : Save(o)
    \/ \E o \in Objs : SaveDataObj(o)
    \/ \E t \in ReadTables, i \in IdArgs : Open(t, i)
    \/ \E t \in ReadTables, i \in IdArgs : Contains(t, i)
    \/ \E t \in ReadTables : GetIdList(t)
    \/ \E t \in ReadTables : GetNextAvailableId(t)
    \/ \E o \in Objs : LoadObjData(o)

Spec == Init /\ [][Next]_vars

\* ------------------------------------------- store equality, on its own

\* A store directory with nothing in it and no call made: the start of the
\* specifications that apply one function to inputs drawn at the start.
Quiet ==
    /\ dirs = {}
    /\ files = [t \in Tables |-> {}]
    /\ objs = InitObjs
    /\ log = <<>>
    /\ returned = [t \in Tables |-> <<>>]
    /\ fresh = {}
    /\ pc = <<>>

\* What the file system may hold at the three entries: "d" and "e" are
\* directories or missing, "lnk" is missing or a symbolic link to one of them.
RootStates ==
    {[d |-> x, e |-> y, lnk |-> z] :
        x \in {Absent, Directory}, y \in {Absent, Directory},
        z \in {Absent, Symlink("d"), Symlink("e")}}

EqCall(op, self, other, r) ==
    [op |-> op, self |-> self, other |-> other, kind |-> r.kind, val |-> r.val]

InitEq ==
    /\ Quiet
    /\ stores \in [Insts -> RootPaths]
    /\ roots \in RootStates
    /\ last = EqCall("init", "", "", Ok(FALSE))

\* self == other
Eq(self, other) ==
    /\ last' = EqCall("eq", self, other, eq(stores, roots, self, other))
    /\ UNCHANGED <<dirs, files, objs, log, returned, fresh, stores, roots, pc>>

NextEq == \E self \in Insts, other \in Insts \cup {NotAStore} : Eq(self, other)

SpecEq == InitEq /\ [][NextEq]_vars

\* ----------------------------------------------- the path codec, on its own

\* The stems the codec is applied to: "{id}_{name}" for ids up to MaxCodecId
\* and names of up to MaxNameLen characters, underscores among them, and any
\* text of up to MaxStemLen characters.
SeqsUpTo(S, n) == UNION {[1..k -> S] : k \in 0..n}

CodecNames == SeqsUpTo({"a", "_"}, MaxNameLen)

CodecStems == SeqsUpTo({"1", "a", "_"}, MaxStemLen)

\* f"{i}_{n}"
Format(i, n) == Str(i) \o <<"_">> \o n

CodecCall(op, stem, formatted, i, n, val, name) ==
    [op |-> op, stem |-> stem, formatted |-> formatted, id |-> i, n |-> n,
     kind |-> "ok", val |-> val, name |-> name]

InitCodec ==
    /\ Quiet
    /\ stores = [a |-> "d", b |-> "e"]
    /\ roots = [d |-> Directory, e |-> Directory, lnk |-> Absent]
    /\ last \in {CodecCall("init", Format(i, n), TRUE, i, n, NoId, <<>>) :
                    i \in 0..MaxCodecId, n \in CodecNames}
                \cup {CodecCall("init", s, FALSE, NoId, <<>>, NoId, <<>>) :
                        s \in CodecStems}

IdFromPath ==
    /\ last' = [last EXCEPT !.op = "id_from_path",
                            !.val = id_from_stem(last.stem)]
    /\ UNCHANGED <<dirs, files, objs, log, returned, fresh, stores, roots, pc>>

NameFromPath ==
    /\ last' = [last EXCEPT !.op = "name_from_path",
                            !.name = name_from_path(last.stem)]
    /\ UNCHANGED <<dirs, files, objs, log, returned, fresh, stores, roots, pc>>

NextCodec == IdFromPath \/ NameFromPath

SpecCodec == InitCodec /\ [][NextCodec]_vars

\* ------------------------------------------------ two writers, one table

\* Two callers save a data object each into the same table through stores on
\* the same directory; a step is one access to the file system together with
\* the statements around it that touch only the caller's own object.
Writers == {"d1", "d2"}

SaveOps == {"save", "save_data_obj"}

\* The writers' objects: unbound, in the same table, under different names.
RaceObjs ==
    [InitObjs EXCEPT
       !.d2 = Obj(TRUE, "ta", "beta", "arr_d2", <<>>, NoId, "none")]

\* Where a writer is: the statement it executes next, the call it is in, the
\* identifier add_row allocated, the mapping add_row was given, the array
\* taken out of it, and the outcome once the call is over.
Pos(at, op, n, dict, data, res) ==
    [at |-> at, op |-> op, n |-> n, dict |-> dict, data |-> data, res |-> res]

Idle == Pos("idle", "", NoId, NoDict, "None", Ok(NoId))

Done(q, res) == [q EXCEPT !.at = "done", !.res = res]

InitRace ==
    /\ files \in {[ta |-> a, tb |-> {}, tp |-> {}] : a \in InitContents}
    /\ dirs \in SUBSET Tables
    /\ "tb" \in dirs /\ "tp" \notin dirs
    /\ files["ta"] # {} => "ta" \in dirs
    /\ objs = RaceObjs
    /\ log = <<>>
    /\ last = Last("init", "", "", NoId, "ok", NoId)
    /\ returned = [t \in Tables |-> <<>>]
    /\ fresh = {t \in Tables : files[t] = {}}
    /\ stores = [a |-> "d", b |-> "d"]
    /\ roots = [d |-> Directory, e |-> Directory, lnk |-> Absent]
    /\ pc = [o \in Writers |-> Idle]

\* save lines 37-45 for an object that owns no data objects, save_data_obj
\* lines 72-77: the dedup test and as_dict.
Called(o, op, c) ==
    /\ pc' = [pc EXCEPT ![o] =
                IF c.kind # "ok" THEN Done(Pos("", op, NoId, NoDict, "None", c),
                                           Raise(c.kind))
                ELSE IF c.val
                THEN Done(Pos("", op, NoId, NoDict, "None", c), Ok(objs[o].id))
                ELSE Pos("exists", op, NoId,
                         IF op = "save" THEN as_dict(World, o)
                         ELSE [as_dict(World, o) EXCEPT !.data = "None"],
                         as_dict(World, o).data, Ok(NoId))]
    /\ UNCHANGED <<dirs, files, objs, log, last, returned, fresh, stores, roots>>

Call(o, op) ==
    /\ pc[o].at = "idle"
    /\ Called(o, op, IF op = "save" THEN Ok(FALSE) ELSE already_saved(World, o))

\* add_row line 87: folder.exists().
FolderExists(o) ==
    /\ pc[o].at = "exists"
    /\ pc' = [pc EXCEPT ![o].at =
                IF objs[o].table \in dirs THEN "alloc" ELSE "mkdir"]
    /\ UNCHANGED <<dirs, files, objs, log, last, returned, fresh, stores, roots>>

\* add_row line 88: folder.mkdir(), FileExistsError if the folder is there by
\* now.
FolderMkdir(o) ==
    /\ pc[o].at = "mkdir"
    /\ pc' = [pc EXCEPT ![o] =
                IF objs[o].table \in dirs THEN Done(@, Raise("FileExistsError"))
                ELSE [@ EXCEPT !.at = "alloc"]]
    /\ dirs' = dirs \cup {objs[o].table}
    /\ UNCHANGED <<files, objs, log, last, returned, fresh, stores, roots>>

\* add_row line 89: i = self.get_next_available_id(table_name).
GotId(o, n) ==
    /\ pc' = [pc EXCEPT ![o] =
                IF n.kind # "ok" THEN Done(@, n)
                ELSE [@ EXCEPT !.at = "open", !.n = n.val]]
    /\ log' = IF n.kind # "ok" THEN log
              ELSE Append(log, Ev("alloc", o, n.val, NoDict))
    /\ UNCHANGED <<dirs, files, objs, last, returned, fresh, stores, roots>>

Allocate(o) ==
    /\ pc[o].at = "alloc"
    /\ GotId(o, get_next_available_id(World, objs[o].table))

\* The row file of a writer, as open(..., "w") leaves it: empty.
RowFile(q) == File(RowToken(q.n), q.dict.name, "meta", NoDict)

\* add_row line 94: open(folder / file_name, "w") creates or empties the file.
OpenRow(o) ==
    /\ pc[o].at = "open"
    /\ IF \E g \in files[objs[o].table] : SamePath(g, RowFile(pc[o])) /\ g.isdir
       THEN /\ pc' = [pc EXCEPT ![o] = Done(@, Raise("IsADirectoryError"))]
            /\ UNCHANGED <<files, log>>
       ELSE /\ pc' = [pc EXCEPT ![o].at = "dump"]
            /\ files' = [files EXCEPT ![objs[o].table] =
                            WriteFile(@, RowFile(pc[o]))]
            /\ log' = Append(log, Ev("write_meta", o, pc[o].n, pc[o].dict))
    /\ UNCHANGED <<dirs, objs, last, returned, fresh, stores, roots>>

\* add_row lines 95-96: json.dump into the open file, TypeError on a mapping
\* it cannot encode.
DumpRow(o) ==
    /\ pc[o].at = "dump"
    /\ files' = [files EXCEPT ![objs[o].table] =
                    WriteFile(@, [RowFile(pc[o]) EXCEPT !.content =
                                    [pc[o].dict EXCEPT !.complete =
                                         JsonSerializable(pc[o].dict)]])]
    /\ pc' = [pc EXCEPT ![o] =
                IF JsonSerializable(pc[o].dict) THEN [@ EXCEPT !.at = "bind"]
                ELSE Done(@, Raise("TypeError"))]
    /\ UNCHANGED <<dirs, objs, log, last, returned, fresh, stores, roots>>

\* save lines 46-48, save_data_obj lines 78-83: the id, the binding and, for
\* a data object, the payload file.
Bind(o) ==
    /\ pc[o].at = "bind"
    /\ objs' = IF pc[o].op = "save"
               THEN [objs EXCEPT ![o].id = pc[o].n,
                                 ![o].backend_name = "DirBackend"]
               ELSE [objs EXCEPT ![o].id = pc[o].n, ![o].backend = "self"]
    /\ files' = IF pc[o].op = "save" THEN files
                ELSE [files EXCEPT ![objs[o].table] =
                        WriteFile(@, PayloadFile(pc[o].n, objs[o].name,
                                                 pc[o].data))]
    /\ pc' = [pc EXCEPT ![o] = Done(@, Ok(pc[o].n))]
    /\ UNCHANGED <<dirs, log, last, returned, fresh, stores, roots>>

NextRace ==
    \/ \E o \in Writers, op \in SaveOps : Call(o, op)
    \/ \E o \in Writers : FolderExists(o)
    \/ \E o \in Writers : FolderMkdir(o)
    \/ \E o \in Writers : Allocate(o)
    \/ \E o \in Writers : OpenRow(o)
    \/ \E o \in Writers : DumpRow(o)
    \/ \E o \in Writers : Bind(o)

SpecRace == InitRace /\ [][NextRace]_vars

\* ----------------------------------------------------------------- claims

IsSave(op) == op \in {"save", "save_data_obj"}

\* The positions of the log entries of kind ev about object o.
At(lg, ev, o) == {k \in 1..Len(lg) : lg[k].ev = ev /\ lg[k].obj = o}

Unbound(ob) == ob.id = NoId /\ ob.backend = "none"

\* C1: every save / save_data_obj of an unbound object (one that owns no data
\* objects and whose mapping json can encode, for save) into a table that
\* started with no entries succeeds, and the identifiers returned for that
\* table count up by one from the seed, which is the same for every table.
C1_FreshTableIdsAreConsecutive ==
    [][\A o \in Objs :
         (/\ objs[o].live /\ Unbound(objs[o]) /\ objs[o].kids = <<>>
          /\ objs[o].table \in fresh
          /\ IsSave(last'.op) /\ last'.obj = o
          /\ (last'.op = "save" => JsonSerializable(as_dict(World, o))))
         => /\ last'.kind = "ok"
            /\ returned'[objs[o].table] =
                   Append(returned[objs[o].table], last'.val)
            /\ \A t \in Tables :
                 returned'[t] # <<>> =>
                     last'.val = returned'[t][1] + Len(returned[objs[o].table])
      ]_vars

\* The dedup branch applies: the object is bound to this store and this
\* store's contains answers True for its id.
AlreadySaved(o) ==
    /\ objs[o].live
    /\ BackendIsSelf(objs[o].backend)
    /\ contains(World, objs[o].table, objs[o].id) = [kind |-> "ok", val |-> TRUE]

MetaFiles(fs) == [t \in Tables |-> {f \in fs[t] : f.ext = "meta"}]

\* C2: a save_data_obj of an object bound to this store whose id the table
\* contains returns that id and leaves folders, files (metadata and payload)
\* and objects as they were; and a save_data_obj that directly follows a
\* successful one of the same object adds no row.
C2_DedupWritesNothing ==
    [][\A o \in Objs :
         (last'.op = "save_data_obj" /\ last'.obj = o)
         => /\ AlreadySaved(o)
               => /\ last'.kind = "ok" /\ last'.val = objs[o].id
                  /\ files' = files /\ dirs' = dirs /\ objs' = objs
                  /\ log' = <<>>
            /\ (last.op = "save_data_obj" /\ last.obj = o /\ last.kind = "ok")
               => MetaFiles(files') = MetaFiles(files) /\ objs'[o].id = objs[o].id
      ]_vars

\* C2 witness: a save_data_obj has just taken the dedup branch for an object
\* that is bound to this store under an id its table holds.
C2_Witness ==
    /\ last.op = "save_data_obj" /\ last.kind = "ok" /\ log = <<>>
    /\ AlreadySaved(last.obj)
    /\ last.val = objs[last.obj].id

\* C3: a save that directly follows a successful save of the same object
\* returns the same identifier, leaves the object's id as it was and writes
\* no file.
C3_SecondSaveSameId ==
    [][(last.op = "save" /\ last.kind = "ok"
        /\ last'.op = "save" /\ last'.obj = last.obj /\ log' # log)
       => /\ last'.kind = "ok" /\ last'.val = last.val
          /\ objs'[last.obj].id = objs[last.obj].id
          /\ files' = files
      ]_vars

\* The mapping as_dict gave for object o during the last call.
DictAtSave(lg, o) == lg[CHOOSE k \in At(lg, "as_dict", o) : TRUE].dict

\* C4: an open of the identifier a successful save has just returned, on the
\* table saved to, succeeds and reads back the mapping as_dict gave that save.
C4_OpenAfterSave ==
    [][(last.op = "save" /\ last.kind = "ok"
        /\ last'.op = "open" /\ last'.tbl = last.tbl /\ last'.arg = last.val)
       => /\ last'.kind = "ok"
          /\ last'.dict = DictAtSave(log, last.obj)
      ]_vars

\* C5: after a save / save_data_obj that wrote a row and returned i for an
\* object named n, the table holds a metadata file named n whose leading
\* token decodes to i, contains(table, i) is True and the next id is i + 1.
C5_RowNameEncodesId ==
    (IsSave(last.op) /\ last.kind = "ok" /\ At(log, "write_meta", last.obj) # {})
    => /\ \E f \in files[last.tbl] :
            f.ext = "meta" /\ f.name = objs[last.obj].name
            /\ id_from_path(f) = last.val
       /\ contains(World, last.tbl, last.val) = [kind |-> "ok", val |-> TRUE]
       /\ get_next_available_id(World, last.tbl) = Ok(last.val + 1)

\* The integers the conforming file names of a folder decode to.
ConformingIds(fs) ==
    {id_from_path(f) : f \in {g \in fs : ~g.isdir /\ IntOf(g.tok).kind = "ok"}}

HasForeignFile(fs) == \E f \in fs : ~f.isdir /\ IntOf(f.tok).kind # "ok"

\* C6: on a table folder holding a file whose leading token is no integer,
\* get_id_list, contains and get_next_available_id complete without raising,
\* on exactly the ids of the conforming files.
C6_ForeignFilesSkipped ==
    (/\ last.op \in {"get_id_list", "contains", "get_next_available_id"}
     /\ last.tbl \in dirs /\ HasForeignFile(files[last.tbl]))
    => /\ last.kind = "ok"
       /\ last.op = "get_id_list" => last.ids = ConformingIds(files[last.tbl])
       /\ last.op = "contains"
              => (last.found <=> last.arg \in ConformingIds(files[last.tbl]))
       /\ (last.op = "get_next_available_id"
           /\ ConformingIds(files[last.tbl]) # {})
              => last.val = Max(ConformingIds(files[last.tbl])) + 1

\* C7: get_next_available_id on an existing table folder with no entries
\* returns a seed instead of raising, and so does the first save /
\* save_data_obj of such an object into a table that held nothing.
C7_EmptyTableHasSeed ==
    /\ (last.op = "get_next_available_id" /\ last.tbl \in dirs
        /\ files[last.tbl] = {})
       => last.kind = "ok"
    /\ (IsSave(last.op) /\ last.tbl \in fresh /\ returned[last.tbl] = <<>>
        /\ objs[last.obj].kids = <<>> /\ At(log, "as_dict", last.obj) # {}
        /\ JsonSerializable([DictAtSave(log, last.obj) EXCEPT
                               !.data = IF last.op = "save" THEN @ ELSE "None"]))
       => last.kind = "ok"

Kids(o) == {objs[o].kids[j] : j \in 1..Len(objs[o].kids)}

\* C8: in a save of an object whose data objects are all unbound, by the time
\* as_dict of the owner is evaluated every data object has had its row
\* written, its id set and its backend set, in the order of data_objects; the
\* mapping as_dict gives holds the ids the data objects now have; and the
\* owner's row is written after that, from that mapping.
C8_ChildrenSavedFirst ==
    [][\A o \in Objs :
         (/\ last'.op = "save" /\ last'.obj = o
          /\ \A c \in Kids(o) : Unbound(objs[c]))
         => \A k \in At(log', "as_dict", o) :
              /\ \A j \in 1..Len(objs[o].kids) :
                   LET c == objs[o].kids[j]
                   IN /\ \E a \in At(log', "write_meta", c),
                            b \in At(log', "set_id", c),
                            e \in At(log', "set_backend", c) :
                            a < b /\ b < e /\ e < k
                      /\ \A m \in 1..Len(log') : log'[m].obj = c => m < k
                      /\ j > 1 =>
                           \A m \in At(log', "set_backend", objs[o].kids[j - 1]),
                              n \in At(log', "as_dict", c) : m < n
                      /\ objs'[c].id # NoId
                      /\ BackendIsSelf(objs'[c].backend)
                      /\ log'[k].dict.refs[j] = objs'[c].id
              /\ \A m \in At(log', "write_meta", o) :
                   m > k /\ [log'[m].dict EXCEPT !.complete = TRUE] = log'[k].dict
      ]_vars

\* C8 witness: a save of the owner p has succeeded in which both of its data
\* objects were saved and p's row was written.
C8_Witness ==
    /\ last.op = "save" /\ last.obj = "p" /\ last.kind = "ok"
    /\ \A c \in Kids("p") : At(log, "set_id", c) # {}
    /\ At(log, "write_meta", "p") # {}

\* What open gives for a folder that exists and holds no such row.
RowNotFound == open("ta", 0, [kind |-> "ok", found |-> FALSE, path |-> NoFile])

\* C9: an open of an identifier that has no metadata row ends in one and the
\* same error, whatever else the table holds and whether or not its folder
\* exists, gives the caller no object and changes no file.
C9_OpenOfAbsentRow ==
    [][(last'.op = "open" /\ RowCandidates(World, last'.tbl, last'.arg) = {})
       => /\ last'.kind # "ok" /\ last'.kind = RowNotFound.kind
          /\ files' = files /\ dirs' = dirs /\ objs' = objs
      ]_vars

\* C10: load_obj_data of an object with a data attribute gives None without
\* raising whenever the table holds no payload file under the object's id.
C10_NoPayloadIsNone ==
    (/\ last.op = "load_obj_data" /\ objs[last.obj].hasdata
     /\ ~\E f \in files[last.tbl] :
            f.ext = "data" /\ id_from_path(f) = objs[last.obj].id)
    => last.kind = "ok" /\ last.data = "None"

\* The world after open(cls, i) put what it reconstructed in the variable r.
Reopened(x) == [World EXCEPT !.objs["r"] = x.obj]

\* C11: after a save_data_obj that wrote a payload and returned i, the table
\* holds a metadata file and a payload file with the same stem, whose leading
\* token decodes to i and whose name is the object's; the metadata file holds
\* a null for the array; and open(cls, i) followed by load_obj_data of what
\* it returned gives the array the object had.
C11_PayloadRoundTrip ==
    (/\ last.op = "save_data_obj" /\ last.kind = "ok"
     /\ objs[last.obj].hasdata
     /\ At(log, "write_payload", last.obj) # {})
    => /\ \E f \in files[last.tbl], g \in files[last.tbl] :
            /\ f.ext = "meta" /\ g.ext = "data"
            /\ f.tok = g.tok /\ f.name = g.name
            /\ f.name = objs[last.obj].name
            /\ id_from_path(f) = last.val
            /\ f.content.complete /\ f.content.data = "None"
       /\ \A r \in get_path_to_row(World, last.tbl, last.val) :
            /\ open(last.tbl, last.val, r).kind = "ok"
            /\ \A q \in get_path_to_row(Reopened(open(last.tbl, last.val, r)),
                                        last.tbl, last.val) :
                 load_obj_data(Reopened(open(last.tbl, last.val, r)), "r", q)
                   = [kind |-> "ok", data |-> DictAtSave(log, last.obj).data]

\* C12: a == b gives a boolean whatever the file system holds, True when b is
\* a or a store whose directory resolves to the same location as a's, False
\* when b's directory resolves elsewhere or b is no store.
C12_StoreEquality ==
    last.op = "eq"
    => /\ last.kind = "ok"
       /\ last.val <=>
            \/ last.other = last.self
            \/ /\ last.other \in Insts
               /\ resolve(roots, stores[last.other])
                    = resolve(roots, stores[last.self])

\* C13: contains(table, i) answers True exactly when get_path_to_row(table, i)
\* finds a metadata file whose leading token decodes to i; a payload file or
\* a file of another extension under that token does not make it True.
C13_ContainsAgreesWithLookup ==
    last.op = "contains"
    => ((last.kind = "ok" /\ last.found)
        <=> \E r \in get_path_to_row(World, last.tbl, last.arg) : r.found)

\* The paths of the metadata files of table t written during a call, from
\* its log.
WrittenRows(lg, t) ==
    {File(RowToken(lg[k].id), lg[k].dict.name, "meta", lg[k].dict) :
       k \in {j \in 1..Len(lg) : lg[j].ev = "write_meta"
                                 /\ objs[lg[j].obj].table = t}}

\* C14: in a sequence of save / save_data_obj calls made one at a time, every
\* row add_row writes goes to a path that held nothing before the call, the
\* metadata files of a table grow by exactly the rows written, and every
\* metadata file that was there keeps its content.
C14_NeverOverwrites ==
    [][IsSave(last'.op)
       => \A t \in Tables :
            /\ \A f \in WrittenRows(log', t) :
                 ~\E g \in files[t] : SamePath(g, f)
            /\ MetaFiles(files)[t] \subseteq MetaFiles(files')[t]
            /\ Cardinality(MetaFiles(files')[t])
                 = Cardinality(MetaFiles(files)[t])
                   + Cardinality({k \in 1..Len(log') :
                                    /\ log'[k].ev = "write_meta"
                                    /\ objs[log'[k].obj].table = t})
      ]_vars

\* C14 witness: a save of an object has been made on a table that holds,
\* beside other metadata files, the row this store wrote for another object
\* of the same display name.
C14_Witness ==
    /\ IsSave(last.op)
    /\ Cardinality(MetaFiles(files)[last.tbl]) > 1
    /\ \E o \in Objs \ {last.obj} :
         /\ BackendIsSelf(objs[o].backend) /\ objs[o].table = last.tbl
         /\ objs[o].name = objs[last.obj].name
         /\ \E f \in files[last.tbl] :
              /\ f.ext = "meta" /\ f.tok = RowToken(objs[o].id)
              /\ f.name = objs[o].name /\ f.content.complete

\* C15: after a save that returned i the object's id is i and its backend is
\* this store, so that a save_data_obj of it through this store now returns i
\* and writes nothing.
C15_SaveBindsObject ==
    (last.op = "save" /\ last.kind = "ok")
    => /\ objs[last.obj].id = last.val
       /\ BackendIsSelf(objs[last.obj].backend)
       /\ save_data_obj(World, last.obj) = [w |-> World, res |-> Ok(last.val)]

\* Every writer has allocated its identifier before any writer opened its row
\* file, and every writer's call has returned with its row file written.
BothAllocatedFirst ==
    /\ \A o \in Writers :
         /\ pc[o].at = "done" /\ pc[o].res.kind = "ok"
         /\ At(log, "alloc", o) # {} /\ At(log, "write_meta", o) # {}
    /\ \A o \in Writers, x \in Writers :
         \A k \in At(log, "alloc", o), m \in At(log, "write_meta", x) : k < m

\* C16: when two saves into one table both allocate before either writes,
\* both have the same identifier, and the table ends up with two metadata
\* files, one under each object's name, whose leading tokens both decode to
\* that identifier.
C16_AllocationRace ==
    BothAllocatedFirst
    => /\ pc["d1"].n = pc["d2"].n
       /\ \E f \in files["ta"], g \in files["ta"] :
            /\ f # g /\ f.ext = "meta" /\ g.ext = "meta"
            /\ f.name = objs["d1"].name /\ g.name = objs["d2"].name
            /\ id_from_path(f) = pc["d1"].n
            /\ id_from_path(g) = pc["d2"].n

\* json.dump raised inside the add_row of object o during the call: the row
\* was opened for a mapping json cannot encode.
DumpFailed(lg, o) ==
    \E k \in At(lg, "write_meta", o) : ~JsonSerializable(lg[k].dict)

\* C17: when json.dump raises inside add_row, the call raises, the table's
\* folder holds the files it held before the call, and the object keeps its
\* id and its binding.
C17_NoPartialWrite ==
    [][\A o \in Objs :
         (IsSave(last'.op) /\ last'.obj = o /\ DumpFailed(log', o))
         => /\ last'.kind # "ok"
            /\ files'[objs[o].table] = files[objs[o].table]
            /\ objs'[o] = objs[o]
      ]_vars

\* C18: for a stem "{id}_{n}", id_from_path gives id and name_from_path gives
\* n, underscores in n included; name_from_path gives the empty string for a
\* stem without an underscore; id_from_path gives None, without raising, for
\* a stem whose first token is no integer.
C18_PathCodecRoundTrip ==
    /\ (last.op = "id_from_path" /\ last.formatted) => last.val = last.id
    /\ (last.op = "name_from_path" /\ last.formatted) => last.name = last.n
    /\ (last.op = "name_from_path"
        /\ \A k \in 1..Len(last.stem) : last.stem[k] # "_")
       => last.name = <<>>
    /\ (last.op = "id_from_path"
        /\ \E k \in 1..Len(last.stem) :
             /\ ~IsDigit(last.stem[k])
             /\ \A j \in 1..k : last.stem[j] # "_")
       => last.kind = "ok" /\ last.val = NoId

\* The row and the payload of data object c, saved under identifier i, are
\* in its table's folder.
OnDisk(fs, c, i) ==
    /\ \E f \in fs[objs[c].table] :
         /\ f.ext = "meta" /\ f.tok = RowToken(i) /\ f.name = objs[c].name
         /\ f.content = [as_dict(World, c) EXCEPT !.data = "None"]
    /\ PayloadFile(i, objs[c].name, objs[c].data) \in fs[objs[c].table]

\* C19: when a save fails while saving one of the object's data objects, the
\* error reaches the caller, the object's row is not written and its id and
\* binding are as before, while every data object saved before the failure
\* has its new id, is bound to the store and has its row and payload on disk.
C19_NoRollbackOnChildFailure ==
    [][\A o \in Objs :
         (/\ last'.op = "save" /\ last'.obj = o
          /\ save_data_objects(World, objs[o].kids, 1).res.kind # "ok")
         => /\ last'.kind = save_data_objects(World, objs[o].kids, 1).res.kind
            /\ At(log', "as_dict", o) = {} /\ At(log', "write_meta", o) = {}
            /\ files'[objs[o].table] = files[objs[o].table]
            /\ objs'[o] = objs[o]
            /\ \A c \in Kids(o) :
                 \A k \in At(log', "set_backend", c) :
                   /\ objs'[c].id = log'[k].id
                   /\ BackendIsSelf(objs'[c].backend)
                   /\ OnDisk(files', c, log'[k].id)
      ]_vars

\* C19 witness: a save of the owner p has failed on its second data object
\* after its first was saved.
C19_Witness ==
    /\ last.op = "save" /\ last.obj = "p" /\ last.kind # "ok"
    /\ At(log, "set_backend", objs["p"].kids[1]) # {}
    /\ At(log, "set_backend", objs["p"].kids[2]) = {}
    /\ At(log, "as_dict", objs["p"].kids[2]) # {}
    /\ objs["p"].id = NoId

====
